---------------------------- MODULE Spec2Model ----------------------------
(***************************************************************************)
(* Chat backend: sessions and messages in a relational store, the generic *)
(* repository (app/crud/base.py), the session and message repositories    *)
(* (app/crud/crud_session.py) and the chat workflow                       *)
(* (app/services/chat_service.py).                                        *)
(*                                                                         *)
(* Text values (titles, prompts, replies, keywords) are sequences of      *)
(* one-character strings, so that strip(), concatenation and ILIKE are    *)
(* computed on characters.  Timestamps are readings of one store clock.   *)
(* Identifiers (uuid4) are fresh numbers, never reused.                   *)
(***************************************************************************)
EXTENDS Integers, Sequences, FiniteSets, TLC

(* ------------------------------ bounds -------------------------------- *)
MaxSessions == 2      \* sessions ever created
MaxMsgs == 3          \* messages ever created
MaxClock == 1         \* readings of the store clock are 0..MaxClock
MaxParts == 2         \* parts the model sends in one stream
MaxDirectMsgs == 2    \* messages created by direct repository calls
MaxDay == 31          \* calendar days the clock of the grouping runs through

ThirtyDays == 30      \* timedelta(days=30)
TicksPerDay == 2      \* readings of the clock that share one calendar date

Procs == {1}          \* request slots served one at a time
Workers == {1, 2}     \* request slots served at the same time

None == 0             \* Python None for an optional identifier

(* --------------------------- text literals ---------------------------- *)
NewConversation ==
  <<"N","e","w"," ","C","o","n","v","e","r","s","a","t","i","o","n">>

UntitledConversation ==
  <<"U","n","t","i","t","l","e","d"," ",
    "C","o","n","v","e","r","s","a","t","i","o","n">>

\* prompts a caller submits
Prompts == { <<"h","i">> }

\* contents of the parts of a streamed reply
PartContents == { <<"x">>, <<"y","z">> }

\* the content of the i-th part of a streamed reply: the two contents in
\* turn, so that a reply of several parts shows the order of its parts
PartAt(i) == IF i % 2 = 1 THEN <<"x">> ELSE <<"y","z">>

\* raw replies of the model to the title request (strip() has work to do)
TitleReplies == { <<" ","A","b"," ">> }

\* titles passed to the repository directly
TitleInputs == { <<"a","B">>, <<"b">> }

\* keywords passed to search_by_title
Keywords == { <<>>, <<"a","b">>, <<"a","B">>, <<"_">>, <<"z">> }

\* contents of messages passed to the repository directly
Contents == { <<"q">> }

\* messages of failures that are not model ResponseErrors
ErrorTexts == { "connection refused" }

(* ---------------------------- text helpers ---------------------------- *)
UpperToLower ==
  [c \in {"A","B","C","N","U"} |->
     CASE c = "A" -> "a" [] c = "B" -> "b" [] c = "C" -> "c"
       [] c = "N" -> "n" [] c = "U" -> "u"]

Lower(c) == IF c \in DOMAIN UpperToLower THEN UpperToLower[c] ELSE c

LowerStr(s) == [i \in 1..Len(s) |-> Lower(s[i])]

RECURSIVE LStrip(_)
LStrip(s) == IF s /= <<>> /\ Head(s) = " " THEN LStrip(Tail(s)) ELSE s

RECURSIVE RStrip(_)
RStrip(s) ==
  IF s /= <<>> /\ s[Len(s)] = " " THEN RStrip(SubSeq(s, 1, Len(s) - 1)) ELSE s

\* str.strip()
Strip(s) == RStrip(LStrip(s))

\* SQL LIKE: % matches any run of characters, _ matches one character
RECURSIVE LikeMatch(_, _)
LikeMatch(pat, s) ==
  IF pat = <<>> THEN s = <<>>
  ELSE IF Head(pat) = "%"
       THEN LikeMatch(Tail(pat), s) \/ (s /= <<>> /\ LikeMatch(pat, Tail(s)))
  ELSE IF s = <<>> THEN FALSE
  ELSE IF Head(pat) = "_" THEN LikeMatch(Tail(pat), Tail(s))
  ELSE Head(pat) = Head(s) /\ LikeMatch(Tail(pat), Tail(s))

\* a faulty ILike: the pattern is compared without folding case
ILikeCaseSensitive(pat, s) == LikeMatch(pat, s)

\* column.ilike(pattern): LIKE on the case-folded pattern and value
ILike(pat, s) == LikeMatch(LowerStr(pat), LowerStr(s))

\* all orders of a finite set of rows
Perms(S) ==
  { f \in [1..Cardinality(S) -> S] :
      \A i, j \in 1..Cardinality(S) : i /= j => f[i] /= f[j] }

(* ------------------------------- state -------------------------------- *)
VARIABLES
  now,        \* the store clock, func.now()
  sessions,   \* table sessions: id -> [title, created_at, updated_at]
  messages,   \* table messages, rows in the order of their creation
  ids,        \* [session, message]: identifiers handed out so far
  turn,       \* per request slot: the position and locals of
              \* process_chat_request
  ret         \* what the last repository call made by a caller returned

vars == <<now, sessions, messages, ids, turn, ret>>

NoOutcome ==
  [kind |-> "none", ai_response |-> <<>>, sessionId |-> None,
   sessionTitle |-> <<>>, prefix |-> "", detail |-> ""]

NoBefore == [user |-> 0, ai |-> 0, title |-> <<>>, updated_at |-> 0,
             sessions |-> {}]

IdleTurn ==
  [pc |-> "idle", prompt |-> <<>>, sessionId |-> None, session |-> None,
   session_title |-> <<>>, history |-> <<>>, full_ai_response |-> <<>>,
   generated_title |-> <<>>, db |-> "none", outcome |-> NoOutcome,
   parts |-> <<>>, reply_failure |-> "none",
   title_failure |-> "none", lookup_miss |-> FALSE, touched_at |-> -1,
   before |-> NoBefore, closes |-> 0, user_msg |-> None, ai_msg |-> None]

NoRet == [op |-> "none", arg |-> <<>>, result |-> <<>>, at |-> 0,
          cascaded |-> {}, db |-> "none", fetched |-> <<>>,
          previous |-> <<>>, closes |-> 0]

\* a faulty db_close: the store session is left open
db_close_skipped(t) == t

\* `finally: db.close()` of an invocation whose locals are t
db_close(t) == [t EXCEPT !.db = "closed", !.closes = @ + 1]

Init ==
  /\ now = 0
  /\ sessions = << >>
  /\ messages = << >>
  /\ ids = [session |-> 0, message |-> 0]
  /\ turn = [p \in Workers |-> IdleTurn]
  /\ ret = NoRet


(* ------------------- the store and the repositories -------------------- *)
\* a row of table sessions as the entity the ORM hands out
SessionEntity(id) ==
  [id |-> id, title |-> sessions[id].title,
   created_at |-> sessions[id].created_at,
   updated_at |-> sessions[id].updated_at]

\* Session(...) inserted: created_at and updated_at both default to now()
NewSessionRow(title) ==
  [title |-> title, created_at |-> now, updated_at |-> now]

\* Message(...) inserted: created_at defaults to now()
NewMessageRow(id, session_id, role, content) ==
  [id |-> id, session_id |-> session_id, role |-> role,
   content |-> content, created_at |-> now]

\* CRUDBase.get on sessions: the row or absent (a sequence of at most one)
crud_session_get(id) ==
  IF id \in DOMAIN sessions THEN << SessionEntity(id) >> ELSE << >>

\* CRUDBase.get on messages
crud_message_get(id) == SelectSeq(messages, LAMBDA m : m.id = id)

\* CRUDBase.create on sessions: db.add, db.commit, db.refresh
crud_session_create(id, title) ==
  [i \in DOMAIN sessions \cup {id} |->
     IF i = id THEN NewSessionRow(title) ELSE sessions[i]]

\* a faulty TouchedRow: the commit of an update rewrites created_at too
TouchedRowResetsCreated(row, update_data, changed) ==
  IF changed = {} THEN row
  ELSE [f \in DOMAIN row |->
          IF f \in changed THEN update_data[f]
          ELSE IF f \in {"updated_at", "created_at"} THEN now
          ELSE row[f]]

\* The row after db.commit() of an object whose attributes in `changed` were
\* set.  The ORM emits an UPDATE only for an object with a net attribute
\* change; updated_at's onupdate=func.now() fires with that UPDATE and not
\* otherwise.
TouchedRow(row, update_data, changed) ==
  IF changed = {} THEN row
  ELSE [f \in DOMAIN row |->
          IF f \in changed THEN update_data[f]
          ELSE IF f = "updated_at" THEN now
          ELSE row[f]]

\* a faulty crud_session_update: the fields of update_data are not set
crud_session_update_no_setattr(id, update_data, attrs_loaded) == sessions

\* CRUDBase.update on sessions: setattr for each item of update_data, db.add,
\* db.commit, db.refresh.  update_data is a function from field names to
\* values ({} is the empty function).  attrs_loaded tells whether db_obj's
\* attributes are loaded (after a refresh or a read) or expired (after a
\* commit): setting a loaded attribute to its own value is no change.
crud_session_update(id, update_data, attrs_loaded) ==
  LET row == sessions[id]
      changed == { f \in DOMAIN update_data :
                     ~attrs_loaded \/ update_data[f] /= row[f] }
  IN [sessions EXCEPT ![id] = TouchedRow(row, update_data, changed)]

\* a faulty CascadedMessages: the delete leaves the messages alone
CascadedMessagesKept(id) == messages

\* Session.messages, cascade="all, delete-orphan": the messages left when
\* session id is deleted through the ORM
CascadedMessages(id) == SelectSeq(messages, LAMBDA m : m.session_id /= id)

\* a faulty crud_session_remove: the delete is never committed
crud_session_remove_uncommitted(id) == sessions

\* CRUDBase.remove on sessions: the table after db.delete(obj), db.commit()
crud_session_remove(id) ==
  [i \in DOMAIN sessions \ {id} |-> sessions[i]]

\* CRUDBase.remove on messages
crud_message_remove(id) == SelectSeq(messages, LAMBDA m : m.id /= id)

\* a faulty create_with_session: the newest row is overwritten
create_with_session_overwrites(id, role, content, session_id) ==
  IF messages = << >>
  THEN << NewMessageRow(id, session_id, role, content) >>
  ELSE [messages EXCEPT
          ![Len(messages)] = NewMessageRow(id, session_id, role, content)]

\* a faulty create_with_session: a session keeps one message of each role,
\* a new one takes the place of the old one
create_with_session_upserts(id, role, content, session_id) ==
  Append(SelectSeq(messages,
                   LAMBDA m : ~(m.session_id = session_id /\ m.role = role)),
         NewMessageRow(id, session_id, role, content))

\* CRUDMessage.create_with_session
create_with_session(id, role, content, session_id) ==
  Append(messages, NewMessageRow(id, session_id, role, content))

\* the rows of messages that belong to a session
MessagesOf(session_id) ==
  { messages[i] : i \in { j \in DOMAIN messages :
                            messages[j].session_id = session_id } }

\* CRUDMessage.get_by_session: filter(session_id).order_by(created_at).
\* SQL leaves the order of rows with equal sort keys open, so the result is
\* any order of the session's rows that is non-decreasing in created_at.
get_by_session(session_id) ==
  { f \in Perms(MessagesOf(session_id)) :
      \A i, j \in DOMAIN f : i < j => f[i].created_at <= f[j].created_at }

\* a faulty ByRecency: the order is ascending in updated_at
ByRecencyAscending(S) ==
  { f \in Perms(S) :
      \A i, j \in DOMAIN f :
         i < j => sessions[f[i]].updated_at <= sessions[f[j]].updated_at }

\* the sessions in any order that is descending in updated_at
ByRecency(S) ==
  { f \in Perms(S) :
      \A i, j \in DOMAIN f :
         i < j => sessions[f[i]].updated_at >= sessions[f[j]].updated_at }

\* CRUDSession.get_all_sessions: order_by(desc(updated_at))
get_all_sessions == ByRecency(DOMAIN sessions)

\* the ids selected by title.ilike(f"%{keyword}%")
TitleMatches(keyword) ==
  { id \in DOMAIN sessions :
      ILike(<<"%">> \o keyword \o <<"%">>, sessions[id].title) }

\* CRUDSession.search_by_title
search_by_title(keyword) == ByRecency(TitleMatches(keyword))

\* the entities of a sequence of session ids
Entities(f) == [i \in DOMAIN f |-> SessionEntity(f[i])]

\* .offset(skip).limit(limit) on the rows f of a query
Page(f, skip, limit) ==
  LET n == IF Len(f) - skip < limit THEN Len(f) - skip ELSE limit
  IN [i \in 1..(IF n < 0 THEN 0 ELSE n) |-> f[skip + i]]

\* CRUDBase.get_multi on sessions: query(model).offset(skip).limit(limit).
\* The query has no ORDER BY, so SQL leaves the order of its rows open, and
\* open anew for every query: with LIMIT and OFFSET the store may choose
\* another plan, and with it another order, for another OFFSET.
crud_session_get_multi(skip, limit) ==
  { Page(Entities(f), skip, limit) : f \in Perms(DOMAIN sessions) }

(* ------------- the repositories called directly by a caller ----------- *)
\* no request is being served and the last result has been taken
AllIdle == ret.op = "none" /\ \A p \in Workers : turn[p].pc = "idle"

\* the caller takes the result of its call
Return ==
  /\ ret.op /= "none"
  /\ ret' = NoRet
  /\ UNCHANGED <<now, sessions, messages, ids, turn>>

Tick ==
  /\ now < MaxClock
  /\ now' = now + 1
  /\ UNCHANGED <<sessions, messages, ids, turn, ret>>

CreateSession(title) ==
  /\ AllIdle
  /\ ids.session < MaxSessions
  /\ LET id == ids.session + 1 IN
       /\ sessions' = crud_session_create(id, title)
       /\ ids' = [ids EXCEPT !.session = id]
       /\ ret' = [NoRet EXCEPT !.op = "create", !.arg = <<id>>,
                               !.result = << [id |-> id] @@ NewSessionRow(title) >>,
                               !.at = now]
  /\ UNCHANGED <<now, messages, turn>>

\* crud_session.update(db, db_obj=<session id>, obj_in=...)
UpdateSession(id, update_data, attrs_loaded) ==
  /\ AllIdle
  /\ id \in DOMAIN sessions
  /\ sessions' = crud_session_update(id, update_data, attrs_loaded)
  /\ ret' = [NoRet EXCEPT !.op = "update", !.arg = <<id, update_data>>,
                          !.at = now]
  /\ UNCHANGED <<now, messages, ids, turn>>

\* crud_session.remove(db, id=...)
RemoveSession(id) ==
  /\ AllIdle
  /\ IF id \in DOMAIN sessions
     THEN /\ sessions' = crud_session_remove(id)
          /\ messages' = CascadedMessages(id)
          /\ ret' = [NoRet EXCEPT !.op = "remove_session", !.arg = <<id>>,
                                  !.result = crud_session_get(id),
                                  !.cascaded = { m.id : m \in MessagesOf(id) }]
     ELSE /\ ret' = [NoRet EXCEPT !.op = "remove_session", !.arg = <<id>>]
          /\ UNCHANGED <<sessions, messages>>
  /\ UNCHANGED <<now, ids, turn>>

\* crud_message.create_with_session(db, obj_in=..., session_id=...) for an
\* existing session (the foreign key of the production store)
CreateMessage(session_id, role, content) ==
  /\ AllIdle
  /\ session_id \in DOMAIN sessions
  /\ ids.message < MaxDirectMsgs
  /\ LET id == ids.message + 1 IN
       /\ messages' = create_with_session(id, role, content, session_id)
       /\ ids' = [ids EXCEPT !.message = id]
       /\ ret' = [NoRet EXCEPT !.op = "create_with_session", !.arg = <<id>>,
                               !.at = now]
  /\ UNCHANGED <<now, sessions, turn>>

\* crud_message.remove(db, id=...)
RemoveMessage(id) ==
  /\ AllIdle
  /\ IF crud_message_get(id) /= << >>
     THEN /\ messages' = crud_message_remove(id)
          /\ ret' = [NoRet EXCEPT !.op = "remove_message", !.arg = <<id>>,
                                  !.result = crud_message_get(id)]
     ELSE /\ ret' = [NoRet EXCEPT !.op = "remove_message", !.arg = <<id>>]
          /\ UNCHANGED messages
  /\ UNCHANGED <<now, sessions, ids, turn>>

\* crud_message.get_by_session(db, session_id=...)
GetBySession(session_id) ==
  /\ AllIdle
  /\ \E f \in get_by_session(session_id) :
       ret' = [NoRet EXCEPT !.op = "get_by_session", !.arg = <<session_id>>,
                            !.result = f]
  /\ UNCHANGED <<now, sessions, messages, ids, turn>>

\* crud_session.search_by_title(db, keyword=...)
SearchByTitle(keyword) ==
  /\ AllIdle
  /\ \E f \in search_by_title(keyword) :
       ret' = [NoRet EXCEPT !.op = "search_by_title", !.arg = keyword,
                            !.result = Entities(f)]
  /\ UNCHANGED <<now, sessions, messages, ids, turn>>

\* crud_session.get_all_sessions(db)
GetAllSessions ==
  /\ AllIdle
  /\ \E f \in get_all_sessions :
       ret' = [NoRet EXCEPT !.op = "get_all_sessions", !.result = Entities(f)]
  /\ UNCHANGED <<now, sessions, messages, ids, turn>>

\* crud_session.get_multi(db, skip=0, limit=limit)
GetMultiFirst(limit) ==
  /\ AllIdle
  /\ \E page \in crud_session_get_multi(0, limit) :
       ret' = [NoRet EXCEPT !.op = "get_multi", !.arg = <<0, limit>>,
                            !.result = page]
  /\ UNCHANGED <<now, sessions, messages, ids, turn>>

\* crud_session.get_multi(db, skip=limit, limit=limit), called next after
\* the first page with nothing written in between
GetMultiNext ==
  /\ ret.op = "get_multi"
  /\ ret.arg[1] = 0
  /\ LET limit == ret.arg[2] IN
       \E page \in crud_session_get_multi(limit, limit) :
         ret' = [NoRet EXCEPT !.op = "get_multi", !.arg = <<limit, limit>>,
                              !.result = page, !.previous = ret.result]
  /\ UNCHANGED <<now, sessions, messages, ids, turn>>

(* -------------- ChatService.get_sessions_grouped_by_time -------------- *)
Today == "Today"
Yesterday == "Yesterday"
PREVIOUS_30_DAYS == "Previous 30 Days"

Buckets == {Today, Yesterday, PREVIOUS_30_DAYS}

\* datetime.date(): the calendar date of a reading of the clock
DateOf(t) == t \div TicksPerDay

\* a faulty InPrevious30Days: the day thirty days back is left out
InPrevious30DaysExclusive(sess_date, today) ==
  today - ThirtyDays < sess_date /\ sess_date < today - 1

\* line 164: thirty_days_ago <= sess_date < yesterday
InPrevious30Days(sess_date, today) ==
  today - ThirtyDays <= sess_date /\ sess_date < today - 1

\* lines 154-165: the loop over all_sessions, appending SessionSchema(id,
\* title) to the bucket of the session's date, or to none
RECURSIVE GroupLoop(_, _, _)
GroupLoop(all_sessions, grouped, today) ==
  IF all_sessions = << >> THEN grouped
  ELSE LET sess == Head(all_sessions)
           sess_date == DateOf(sess.created_at)
           session_data == [id |-> sess.id, title |-> sess.title]
           yesterday == today - 1
       IN GroupLoop(Tail(all_sessions),
                    IF sess_date = today
                    THEN [grouped EXCEPT ![Today] = Append(@, session_data)]
                    ELSE IF sess_date = yesterday
                    THEN [grouped EXCEPT ![Yesterday] = Append(@, session_data)]
                    ELSE IF InPrevious30Days(sess_date, today)
                    THEN [grouped EXCEPT
                            ![PREVIOUS_30_DAYS] = Append(@, session_data)]
                    ELSE grouped,
                    today)

\* lines 144-167: the three buckets, all present, filled by the loop
Grouped(all_sessions, today) ==
  GroupLoop(all_sessions, [b \in Buckets |-> << >>], today)

\* a caller asks for the grouped sessions; line 137: db = SessionLocal().
\* query is the empty text for None and for "" (both are falsy at line 139)
GroupedBegin(query) ==
  /\ AllIdle
  /\ ret' = [NoRet EXCEPT !.op = "grouped_fetch", !.arg = query,
                          !.db = "open"]
  /\ UNCHANGED <<now, sessions, messages, ids, turn>>

\* lines 139-169: the fetch, the grouping by today's date, the return of the
\* buckets, db.close()
GroupedReturn ==
  /\ ret.op = "grouped_fetch"
  /\ \E f \in (IF ret.arg /= << >> THEN search_by_title(ret.arg)
                ELSE get_all_sessions) :
       ret' = db_close([ret EXCEPT
                          !.op = "grouped", !.fetched = Entities(f),
                          !.result = Grouped(Entities(f), DateOf(now)),
                          !.at = now])
  /\ UNCHANGED <<now, sessions, messages, ids, turn>>

\* the fetch fails: the exception leaves through `finally: db.close()`
GroupedFailure ==
  /\ ret.op = "grouped_fetch"
  /\ ret' = db_close([ret EXCEPT !.op = "grouped_raised"])
  /\ UNCHANGED <<now, sessions, messages, ids, turn>>

\* The clock of the store and of the service goes on by d readings.  Two
\* advances with no write between them are one advance by their sum, so the
\* clock goes on from its start or from a reading at which a session was
\* created.
ClockAdvance(d) ==
  /\ AllIdle
  /\ now = 0 \/ \E id \in DOMAIN sessions : sessions[id].created_at = now
  /\ DateOf(now + d) <= MaxDay
  /\ now' = now + d
  /\ UNCHANGED <<sessions, messages, ids, turn, ret>>

(* ------------------ ChatService.process_chat_request ------------------ *)
ChatResponse(ai_response, sessionId, sessionTitle) ==
  [NoOutcome EXCEPT !.kind = "ChatResponse", !.ai_response = ai_response,
                    !.sessionId = sessionId, !.sessionTitle = sessionTitle]

\* raise RuntimeError(f"{prefix}{detail}")
RuntimeError(prefix, detail) ==
  [NoOutcome EXCEPT !.kind = "RuntimeError", !.prefix = prefix,
                    !.detail = detail]

\* `except Exception as e: raise RuntimeError(f"Service error: {str(e)}")`
\* followed by `finally: db.close()`
Raised(t, detail) ==
  db_close([t EXCEPT !.pc = "done",
                     !.outcome = RuntimeError("Service error: ", detail)])

CountRole(session_id, role) ==
  Cardinality({ m \in MessagesOf(session_id) : m.role = role })

\* ChatService._build_ollama_history: role.value and content of each message
_build_ollama_history(msgs) ==
  [i \in DOMAIN msgs |-> [role |-> msgs[i].role, content |-> msgs[i].content]]

\* a caller submits ChatRequest(prompt, sessionId); db = SessionLocal()
Begin(p, prompt, sessionId) ==
  /\ turn[p].pc = "idle"
  /\ ret.op = "none"
  /\ sessionId = None => ids.session < MaxSessions
  /\ (sessionId = None \/ sessionId \in DOMAIN sessions)
        => ids.message + 2 <= MaxMsgs
  /\ turn' = [turn EXCEPT ![p] =
                [IdleTurn EXCEPT !.pc = "session", !.prompt = prompt,
                                 !.sessionId = sessionId, !.db = "open"]]
  /\ UNCHANGED <<now, sessions, messages, ids, ret>>

\* a faulty ResolveSession: a session is created for an id that matches none
\* before the miss is reported
ResolveSessionCreatesOnMiss(p) ==
  /\ turn[p].pc = "session"
  /\ IF turn[p].sessionId = None \/ crud_session_get(turn[p].sessionId) = << >>
     THEN LET id == ids.session + 1 IN
            /\ sessions' = crud_session_create(id, NewConversation)
            /\ ids' = [ids EXCEPT !.session = id]
            /\ turn' = [turn EXCEPT ![p] =
                  IF turn[p].sessionId = None
                  THEN [@ EXCEPT !.pc = "user_message", !.session = id,
                                 !.session_title = NewConversation,
                                 !.before =
                                    [user |-> 0, ai |-> 0,
                                     title |-> NewConversation,
                                     updated_at |-> now,
                                     sessions |-> DOMAIN sessions]]
                  ELSE Raised([@ EXCEPT !.lookup_miss = TRUE],
                              "Session not found")]
     ELSE LET session == crud_session_get(turn[p].sessionId)[1] IN
            /\ turn' = [turn EXCEPT ![p].pc = "user_message",
                                    ![p].session = session.id,
                                    ![p].session_title = session.title,
                                    ![p].before =
                                       [user |-> CountRole(session.id, "user"),
                                        ai |-> CountRole(session.id, "ai"),
                                        title |-> session.title,
                                        updated_at |-> session.updated_at,
                                        sessions |-> DOMAIN sessions]]
            /\ UNCHANGED <<sessions, ids>>
  /\ UNCHANGED <<now, messages, ret>>

\* lines 47-60: create the session or load it; a miss raises ValueError,
\* which the handler of Exception of the same try block translates
ResolveSession(p) ==
  /\ turn[p].pc = "session"
  /\ IF turn[p].sessionId = None
     THEN LET id == ids.session + 1 IN
            /\ sessions' = crud_session_create(id, NewConversation)
            /\ ids' = [ids EXCEPT !.session = id]
            /\ turn' = [turn EXCEPT ![p].pc = "user_message",
                                    ![p].session = id,
                                    ![p].session_title = NewConversation,
                                    ![p].before =
                                       [user |-> 0, ai |-> 0,
                                        title |-> NewConversation,
                                        updated_at |-> now,
                                        sessions |-> DOMAIN sessions]]
     ELSE IF crud_session_get(turn[p].sessionId) = << >>
     THEN /\ turn' = [turn EXCEPT ![p] =
                        Raised([@ EXCEPT !.lookup_miss = TRUE],
                               "Session not found")]
          /\ UNCHANGED <<sessions, ids>>
     ELSE LET session == crud_session_get(turn[p].sessionId)[1] IN
            /\ turn' = [turn EXCEPT ![p].pc = "user_message",
                                    ![p].session = session.id,
                                    ![p].session_title = session.title,
                                    ![p].before =
                                       [user |-> CountRole(session.id, "user"),
                                        ai |-> CountRole(session.id, "ai"),
                                        title |-> session.title,
                                        updated_at |-> session.updated_at,
                                        sessions |-> DOMAIN sessions]]
            /\ UNCHANGED <<sessions, ids>>
  /\ UNCHANGED <<now, messages, ret>>

\* lines 62-64: save the user message
SaveUserMessage(p) ==
  /\ turn[p].pc = "user_message"
  /\ LET id == ids.message + 1 IN
       /\ messages' = create_with_session(id, "user", turn[p].prompt,
                                          turn[p].session)
       /\ ids' = [ids EXCEPT !.message = id]
       /\ turn' = [turn EXCEPT ![p].pc = "history", ![p].user_msg = id]
  /\ UNCHANGED <<now, sessions, ret>>

\* lines 66-67: history = _build_ollama_history(_get_chat_history(...))
LoadHistory(p) ==
  /\ turn[p].pc = "history"
  /\ \E msgs \in get_by_session(turn[p].session) :
       turn' = [turn EXCEPT ![p].pc = "stream",
                            ![p].history = _build_ollama_history(msgs)]
  /\ UNCHANGED <<now, sessions, messages, ids, ret>>

\* a faulty StreamPart: the content is put in front of full_ai_response
StreamPartPrepends(p, content) ==
  /\ turn[p].pc = "stream"
  /\ Len(turn[p].parts) < MaxParts
  /\ content = PartAt(Len(turn[p].parts) + 1)
  /\ turn' = [turn EXCEPT
                ![p].parts = Append(@, content),
                ![p].full_ai_response = content \o @]
  /\ UNCHANGED <<now, sessions, messages, ids, ret>>

\* lines 71-72 and 110-113: the model sends a part; a part with content is
\* yielded as {"chunk": content} and appended to full_ai_response
StreamPart(p, content) ==
  /\ turn[p].pc = "stream"
  /\ Len(turn[p].parts) < MaxParts
  /\ content = PartAt(Len(turn[p].parts) + 1)
  /\ turn' = [turn EXCEPT
                ![p].parts = Append(@, content),
                ![p].full_ai_response =
                   IF content /= << >> THEN @ \o content ELSE @]
  /\ UNCHANGED <<now, sessions, messages, ids, ret>>

\* the stream is exhausted
StreamEnd(p) ==
  /\ turn[p].pc = "stream"
  /\ turn' = [turn EXCEPT ![p].pc = "ai_message"]
  /\ UNCHANGED <<now, sessions, messages, ids, ret>>

\* lines 114-115: the model client raises ResponseError, at the call or at any
\* part; stream_ai_response yields {"error": ...} and ends; the caller's
\* chunk.get("chunk", "") adds "" and the loop is over
StreamResponseError(p) ==
  /\ turn[p].pc = "stream"
  /\ turn' = [turn EXCEPT ![p].pc = "ai_message",
                          ![p].reply_failure = "ResponseError"]
  /\ UNCHANGED <<now, sessions, messages, ids, ret>>

\* the model client raises another exception (the server is unreachable):
\* it leaves the generator and reaches line 94
StreamOtherError(p, text) ==
  /\ turn[p].pc = "stream"
  /\ turn' = [turn EXCEPT ![p] =
                Raised([@ EXCEPT !.reply_failure = "Exception"], text)]
  /\ UNCHANGED <<now, sessions, messages, ids, ret>>

\* a faulty SaveAIMessage: every turn goes on to the title generation
SaveAIMessageThenTitle(p) ==
  /\ turn[p].pc = "ai_message"
  /\ LET id == ids.message + 1 IN
       /\ messages' = create_with_session(id, "ai", turn[p].full_ai_response,
                                          turn[p].session)
       /\ ids' = [ids EXCEPT !.message = id]
  /\ turn' = [turn EXCEPT ![p].pc = "title"]
  /\ UNCHANGED <<now, sessions, ret>>

\* lines 74-79: save the AI message; a new session goes on to its title
SaveAIMessage(p) ==
  /\ turn[p].pc = "ai_message"
  /\ LET id == ids.message + 1 IN
       /\ messages' = create_with_session(id, "ai", turn[p].full_ai_response,
                                          turn[p].session)
       /\ ids' = [ids EXCEPT !.message = id]
       /\ turn' = [turn EXCEPT
                     ![p].pc = IF turn[p].sessionId = None THEN "title"
                               ELSE "touch",
                     ![p].ai_msg = id]
  /\ UNCHANGED <<now, sessions, ret>>

\* generate_session_title, lines 123-127: the model's reply, stripped
TitleReply(p, raw) ==
  /\ turn[p].pc = "title"
  /\ turn' = [turn EXCEPT ![p].pc = "update_title",
                          ![p].generated_title = Strip(raw)]
  /\ UNCHANGED <<now, sessions, messages, ids, ret>>

\* generate_session_title, lines 128-129: ResponseError gives the default
TitleResponseError(p) ==
  /\ turn[p].pc = "title"
  /\ turn' = [turn EXCEPT ![p].pc = "update_title",
                          ![p].generated_title = UntitledConversation,
                          ![p].title_failure = "ResponseError"]
  /\ UNCHANGED <<now, sessions, messages, ids, ret>>

\* generate_session_title raises another exception: only ResponseError is
\* caught there, so it reaches line 94
TitleOtherError(p, text) ==
  /\ turn[p].pc = "title"
  /\ turn' = [turn EXCEPT ![p] =
                Raised([@ EXCEPT !.title_failure = "Exception"], text)]
  /\ UNCHANGED <<now, sessions, messages, ids, ret>>

\* lines 81-82: update(db, db_obj=session, obj_in={"title": generated_title});
\* the commits of the messages have expired the session object's attributes
UpdateTitle(p) ==
  /\ turn[p].pc = "update_title"
  /\ sessions' = crud_session_update(turn[p].session,
                                     [f \in {"title"} |-> turn[p].generated_title],
                                     FALSE)
  /\ turn' = [turn EXCEPT ![p].pc = "touch",
                          ![p].session_title = turn[p].generated_title]
  /\ UNCHANGED <<now, messages, ids, ret>>

\* lines 84-91 and 97: update(db, db_obj=session, obj_in={}), the return of
\* the ChatResponse, db.close()
Touch(p) ==
  /\ turn[p].pc = "touch"
  /\ sessions' = crud_session_update(turn[p].session, << >>, TRUE)
  /\ turn' = [turn EXCEPT ![p] =
                db_close([@ EXCEPT
                            !.pc = "done", !.touched_at = now,
                            !.outcome = ChatResponse(turn[p].full_ai_response,
                                                     turn[p].session,
                                                     turn[p].session_title)])]
  /\ UNCHANGED <<now, messages, ids, ret>>

\* a store operation of the turn fails: the exception reaches line 94
StoreFailure(p, text) ==
  /\ turn[p].pc \in {"session", "user_message", "history", "ai_message",
                     "update_title", "touch"}
  /\ turn' = [turn EXCEPT ![p] = Raised(@, text)]
  /\ UNCHANGED <<now, sessions, messages, ids, ret>>

\* the caller has the outcome; the slot serves the next request
Finish(p) ==
  /\ turn[p].pc = "done"
  /\ turn' = [turn EXCEPT ![p] = IdleTurn]
  /\ UNCHANGED <<now, sessions, messages, ids, ret>>

(* --------------------------- specification ---------------------------- *)
SessionIds == 1..MaxSessions
MessageIds == 1..MaxDirectMsgs
Roles == {"user", "ai"}
UpdateData == { << >> } \cup { [f \in {"title"} |-> t] : t \in TitleInputs }

\* the chat workflow: requests served one after another
Next ==
  \/ Tick
  \/ \E p \in Procs :
       \/ \E prompt \in Prompts, sessionId \in {None} \cup SessionIds :
            Begin(p, prompt, sessionId)
       \/ ResolveSession(p)
       \/ SaveUserMessage(p)
       \/ LoadHistory(p)
       \/ \E content \in PartContents : StreamPart(p, content)
       \/ StreamEnd(p)
       \/ StreamResponseError(p)
       \/ \E text \in ErrorTexts : StreamOtherError(p, text)
       \/ SaveAIMessage(p)
       \/ \E raw \in TitleReplies : TitleReply(p, raw)
       \/ TitleResponseError(p)
       \/ \E text \in ErrorTexts : TitleOtherError(p, text)
       \/ UpdateTitle(p)
       \/ Touch(p)
       \/ \E text \in ErrorTexts : StoreFailure(p, text)
       \/ Finish(p)

Spec == Init /\ [][Next]_vars

\* the session repository called one operation after another
NextCrud ==
  \/ Tick
  \/ \E title \in TitleInputs : CreateSession(title)
  \/ \E id \in SessionIds, update_data \in UpdateData, attrs_loaded \in BOOLEAN :
       UpdateSession(id, update_data, attrs_loaded)
  \/ \E keyword \in Keywords : SearchByTitle(keyword)
  \/ GetAllSessions
  \/ \E query \in Keywords : GroupedBegin(query)
  \/ GroupedReturn
  \/ GroupedFailure
  \/ Return

SpecCrud == Init /\ [][NextCrud]_vars

\* the message repository called one operation after another, on sessions
\* created with the provisional title
NextMessages ==
  \/ Tick
  \/ CreateSession(NewConversation)
  \/ \E id \in SessionIds : RemoveSession(id)
  \/ \E id \in SessionIds, role \in Roles, content \in Contents :
       CreateMessage(id, role, content)
  \/ \E id \in MessageIds : RemoveMessage(id)
  \/ \E id \in SessionIds : GetBySession(id)
  \/ Return

SpecMessages == Init /\ [][NextMessages]_vars

\* the two entry points of the service, called one after another, on
\* sessions of their own and on sessions created through the repository,
\* while the clock stands still
NextService ==
  \/ \E title \in TitleInputs : CreateSession(title)
  \/ GroupedBegin(<< >>)
  \/ GroupedReturn
  \/ GroupedFailure
  \/ Return
  \/ \E p \in Procs :
       \/ \E prompt \in Prompts, sessionId \in {None} \cup SessionIds :
            Begin(p, prompt, sessionId)
       \/ ResolveSession(p)
       \/ SaveUserMessage(p)
       \/ LoadHistory(p)
       \/ \E content \in PartContents : StreamPart(p, content)
       \/ StreamEnd(p)
       \/ StreamResponseError(p)
       \/ \E text \in ErrorTexts : StreamOtherError(p, text)
       \/ SaveAIMessage(p)
       \/ \E raw \in TitleReplies : TitleReply(p, raw)
       \/ TitleResponseError(p)
       \/ \E text \in ErrorTexts : TitleOtherError(p, text)
       \/ UpdateTitle(p)
       \/ Touch(p)
       \/ \E text \in ErrorTexts : StoreFailure(p, text)
       \/ Finish(p)

SpecService == Init /\ [][NextService]_vars

\* turns, completed and failed, on sessions that hold messages of both roles
\* already: the sessions and their earlier messages come through the
\* repositories
NextHistory ==
  \/ Tick
  \/ CreateSession(NewConversation)
  \/ \E id \in SessionIds, role \in Roles, content \in Contents :
       CreateMessage(id, role, content)
  \/ Return
  \/ \E p \in Procs :
       \/ \E prompt \in Prompts, sessionId \in SessionIds :
            Begin(p, prompt, sessionId)
       \/ ResolveSession(p)
       \/ SaveUserMessage(p)
       \/ LoadHistory(p)
       \/ \E content \in PartContents : StreamPart(p, content)
       \/ StreamEnd(p)
       \/ \E text \in ErrorTexts : StreamOtherError(p, text)
       \/ SaveAIMessage(p)
       \/ Touch(p)
       \/ \E text \in ErrorTexts : StoreFailure(p, text)
       \/ Finish(p)

SpecHistory == Init /\ [][NextHistory]_vars

\* two turns served at the same time, one by each worker, each with a store
\* session of its own, on sessions created through the repository; the
\* model's replies are empty streams
NextConcurrent ==
  \/ Tick
  \/ CreateSession(NewConversation)
  \/ Return
  \/ \E p \in Workers :
       \/ \E prompt \in Prompts, sessionId \in SessionIds :
            Begin(p, prompt, sessionId)
       \/ ResolveSession(p)
       \/ SaveUserMessage(p)
       \/ LoadHistory(p)
       \/ StreamEnd(p)
       \/ SaveAIMessage(p)
       \/ Touch(p)

SpecConcurrent == Init /\ [][NextConcurrent]_vars

\* the values of limit a caller pages with
Limits == 1..MaxSessions

\* the rows of one table read page by page
NextPages ==
  \/ Tick
  \/ \E title \in TitleInputs : CreateSession(title)
  \/ \E limit \in Limits : GetMultiFirst(limit)
  \/ GetMultiNext
  \/ Return

SpecPages == Init /\ [][NextPages]_vars

\* half a day, a day, twenty-nine days, thirty days
ClockSteps ==
  {1, TicksPerDay, (ThirtyDays - 1) * TicksPerDay, ThirtyDays * TicksPerDay}

\* sessions created over the days and listed grouped by their date
NextGrouped ==
  \/ \E d \in ClockSteps : ClockAdvance(d)
  \/ CreateSession(NewConversation)
  \/ GroupedBegin(<< >>)
  \/ GroupedReturn
  \/ GroupedFailure
  \/ Return

SpecGrouped == Init /\ [][NextGrouped]_vars

TypeOK ==
  /\ now \in 0..((MaxDay + 1) * TicksPerDay)
  /\ DOMAIN sessions \subseteq SessionIds
  /\ Len(messages) <= MaxMsgs
  /\ \A p \in Procs : turn[p].db \in {"none", "open", "closed"}

(* ------------------------------ claims -------------------------------- *)
Done(p) == turn[p].pc = "done"
Succeeded(p) == Done(p) /\ turn[p].outcome.kind = "ChatResponse"

\* C1: whenever the model client fails during the streamed reply generation,
\* the turn ends by raising the service-failure error and never returns a
\* normal ChatResponse.
C1_ReplyFailureRaises ==
  \A p \in Procs :
    (Done(p) /\ turn[p].reply_failure /= "none")
       => turn[p].outcome.kind = "RuntimeError"

\* C2: if the reply generation of a turn fails, no 'ai' message is written for
\* that turn and the 'user' message stays: the session holds one more user
\* message and no more ai message than before the turn.
C2_NoAiMessageAfterReplyFailure ==
  \A p \in Procs :
    turn[p].reply_failure /= "none"
       => /\ CountRole(turn[p].session, "ai") = turn[p].before.ai
          /\ CountRole(turn[p].session, "user") = turn[p].before.user + 1

\* C3: a successful turn submitted without a session id creates exactly one
\* session, leaves it with exactly the user message of the prompt and the ai
\* message of the reply, returns that session's id, and the stored and
\* returned title is the generated title ("Untitled Conversation" when the
\* title generation failed), not "New Conversation".
C3_NewSessionTurn ==
  \A p \in Procs :
    (Succeeded(p) /\ turn[p].sessionId = None) =>
       LET o == turn[p].outcome
           own == MessagesOf(o.sessionId)
       IN /\ o.sessionId \notin turn[p].before.sessions
          /\ DOMAIN sessions = turn[p].before.sessions \cup {o.sessionId}
          /\ Cardinality(own) = 2
          /\ \E u, a \in own :
               /\ u.role = "user" /\ u.content = turn[p].prompt
               /\ a.role = "ai" /\ a.content = o.ai_response
          /\ sessions[o.sessionId].title = o.sessionTitle
          /\ IF turn[p].title_failure = "none"
             THEN o.sessionTitle = <<"A","b">>
             ELSE o.sessionTitle = UntitledConversation
          /\ o.sessionTitle /= NewConversation

C3_Witness ==
  \E p \in Procs :
    /\ Succeeded(p) /\ turn[p].sessionId = None
    /\ turn[p].title_failure = "none"
    /\ turn[p].outcome.ai_response /= << >>

\* C4: on the first turn of a new session any failure of the title-generation
\* call makes the title "Untitled Conversation" and the turn still succeeds;
\* a title-generation failure never aborts the turn.
C4_TitleFailureNeverAborts ==
  \A p \in Procs :
    (Done(p) /\ turn[p].title_failure /= "none")
       => /\ turn[p].outcome.kind = "ChatResponse"
          /\ sessions[turn[p].session].title = UntitledConversation

\* what a caller can tell an error by: its class and the fixed part of its text
Condition(outcome) == <<outcome.kind, outcome.prefix>>

\* C5: a turn submitted with a session id that matches no session fails with a
\* not-found condition that differs from the generic service failure.
C5_NotFoundIsDistinct ==
  \A p \in Procs :
    (Done(p) /\ turn[p].lookup_miss)
       => /\ turn[p].outcome.kind \notin {"none", "ChatResponse"}
          /\ Condition(turn[p].outcome)
               /= Condition(RuntimeError("Service error: ", ""))

\* C6: update with an empty change set still writes the row and sets
\* updated_at to the current time, so every successful turn leaves its
\* session's updated_at at the time of its final update.
C6_EmptyUpdateTouches ==
  \A p \in Procs :
    Succeeded(p) => sessions[turn[p].session].updated_at = turn[p].touched_at

\* C7: for every session created_at <= updated_at, created_at never changes
\* and updated_at never decreases.
C7_Timestamps ==
  /\ [](\A id \in DOMAIN sessions :
          sessions[id].created_at <= sessions[id].updated_at)
  /\ [][\A id \in DOMAIN sessions \cap DOMAIN sessions' :
          /\ sessions'[id].created_at = sessions[id].created_at
          /\ sessions'[id].updated_at >= sessions[id].updated_at]_vars

C7_Witness ==
  \E id \in DOMAIN sessions :
    /\ sessions[id].updated_at > sessions[id].created_at
    /\ \E p \in Procs : Succeeded(p) /\ turn[p].session = id

\* the messages of a session in the order of their creation
CreatedInOrder(session_id) ==
  SelectSeq(messages, LAMBDA m : m.session_id = session_id)

\* C8: get_by_session returns exactly the messages created for the session,
\* in the order of their creation, also when several share one created_at.
C8_HistoryInCreationOrder ==
  ret.op = "get_by_session" => ret.result = CreatedInOrder(ret.arg[1])

\* C9: removing a session through the repository removes every message of
\* that session (none is left, a lookup of any of their ids is absent) and
\* leaves the messages of the other sessions as they were.
C9_RemoveCascades ==
  [][\A id \in SessionIds :
       (id \in DOMAIN sessions /\ id \notin DOMAIN sessions') =>
          /\ \A j \in DOMAIN messages' : messages'[j].session_id /= id
          /\ \A m \in MessagesOf(id) : crud_message_get(m.id)' = << >>
          /\ \A i \in DOMAIN messages :
               messages[i].session_id /= id =>
                  \E j \in DOMAIN messages' : messages'[j] = messages[i]
          /\ Len(messages') = Len(messages) - Cardinality(MessagesOf(id))]_vars

C9_Witness ==
  /\ ret.op = "remove_session"
  /\ ret.result /= << >>
  /\ ret.cascaded /= {}
  /\ messages /= << >>

\* two keywords that differ only in the case of their letters
DifferOnlyInCase(a, b) ==
  /\ Len(a) = Len(b)
  /\ \A i \in 1..Len(a) :
       \/ a[i] = b[i]
       \/ a[i] \in DOMAIN UpperToLower /\ UpperToLower[a[i]] = b[i]
       \/ b[i] \in DOMAIN UpperToLower /\ UpperToLower[b[i]] = a[i]

\* C10: search_by_title returns the same set of sessions for any two
\* keywords that differ only in letter case.
C10_SearchIgnoresCase ==
  ret.op = "search_by_title" =>
     \A k \in Keywords :
        DifferOnlyInCase(k, ret.arg) =>
           TitleMatches(k) = { ret.result[i].id : i \in DOMAIN ret.result }

C10_Witness ==
  /\ ret.op = "search_by_title"
  /\ ret.arg = <<"a","b">>
  /\ Len(ret.result) = 1
  /\ Cardinality(DOMAIN sessions) = 2


\* sub occurs in s as a run of consecutive characters
Contains(s, sub) ==
  \E i \in 0..(Len(s) - Len(sub)) : SubSeq(s, i + 1, i + Len(sub)) = sub

\* the sessions whose title holds the keyword literally, whatever the case
LiteralMatches(keyword) ==
  { id \in DOMAIN sessions :
      Contains(LowerStr(sessions[id].title), LowerStr(keyword)) }

\* C11: for every keyword search_by_title returns exactly the sessions whose
\* title contains the keyword as a literal case-insensitive substring: the
\* empty keyword returns all sessions, a keyword in no title returns none.
C11_SearchIsLiteralSubstring ==
  ret.op = "search_by_title" =>
     { ret.result[i].id : i \in DOMAIN ret.result } = LiteralMatches(ret.arg)

\* the bucket entries of a grouped result that stand for session id
BucketsOf(grouped, id) ==
  { <<b, i>> \in Buckets \X (1..MaxSessions) :
      i \in DOMAIN grouped[b] /\ grouped[b][i].id = id }

\* how many days before the day of the grouping the session was created
DaysAgo(id) == DateOf(ret.at) - DateOf(sessions[id].created_at)

\* C12: get_sessions_grouped_by_time places each fetched session in at most
\* one bucket, decided by its created_at date relative to the current date:
\* today -> Today; one day before -> Yesterday; 2 to 30 days before ->
\* Previous 30 Days; older than 30 days -> no bucket.
C12_GroupedByDate ==
  ret.op = "grouped" =>
    \A i \in DOMAIN ret.fetched :
      LET id == ret.fetched[i].id
          placed == BucketsOf(ret.result, id)
          ago == DaysAgo(id)
      IN /\ Cardinality(placed) <= 1
         /\ ago = 0 => \E e \in placed : e[1] = Today
         /\ ago = 1 => \E e \in placed : e[1] = Yesterday
         /\ (2 <= ago /\ ago <= ThirtyDays)
               => \E e \in placed : e[1] = PREVIOUS_30_DAYS
         /\ ago > ThirtyDays => placed = {}

C12_Witness ==
  /\ ret.op = "grouped"
  /\ \E i, j \in DOMAIN ret.fetched :
       /\ DaysAgo(ret.fetched[i].id) = ThirtyDays
       /\ DaysAgo(ret.fetched[j].id) = ThirtyDays + 1
       /\ sessions[ret.fetched[j].id].created_at % TicksPerDay
            /= ret.at % TicksPerDay

\* a sequence of session entities in which none follows one updated earlier
Descending(f) ==
  \A i, j \in DOMAIN f : i < j => f[i].updated_at >= f[j].updated_at

\* the place of session id in a sequence of entities, 0 if it is not there
Pos(f, id) ==
  IF \E i \in DOMAIN f : f[i].id = id
  THEN CHOOSE i \in DOMAIN f : f[i].id = id
  ELSE 0

\* bucket holds entries of f only, each once, in the order they have in f
SubsequenceOf(bucket, f) ==
  /\ \A i \in DOMAIN bucket :
       /\ Pos(f, bucket[i].id) > 0
       /\ bucket[i].title = f[Pos(f, bucket[i].id)].title
  /\ \A i, j \in DOMAIN bucket :
       i < j => Pos(f, bucket[i].id) < Pos(f, bucket[j].id)

\* C13: get_all_sessions and search_by_title return sessions in descending
\* updated_at order; every bucket of get_sessions_grouped_by_time is a
\* subsequence of that order, and the three buckets are always present,
\* empty or not.
C13_RecencyOrder ==
  /\ ret.op = "get_all_sessions" =>
       /\ Descending(ret.result)
       /\ { ret.result[i].id : i \in DOMAIN ret.result } = DOMAIN sessions
       /\ Len(ret.result) = Cardinality(DOMAIN sessions)
  /\ ret.op = "search_by_title" => Descending(ret.result)
  /\ ret.op = "grouped" =>
       /\ DOMAIN ret.result = Buckets
       /\ Descending(ret.fetched)
       /\ \A b \in Buckets : SubsequenceOf(ret.result[b], ret.fetched)

C13_Witness ==
  /\ ret.op = "grouped"
  /\ ret.arg /= << >>
  /\ \E b \in Buckets :
       /\ Len(ret.result[b]) = 2
       /\ ret.result[b][1].id < ret.result[b][2].id
       /\ sessions[ret.result[b][1].id].updated_at
            > sessions[ret.result[b][2].id].updated_at
  /\ \E b \in Buckets : ret.result[b] = << >>

\* C14: remove with an id that matches no row returns absent and leaves the
\* store unchanged; remove with an existing id returns the removed entity, and
\* a get of that id afterwards returns absent.
C14_RemoveReturns ==
  [][\A id \in SessionIds \cup MessageIds :
       (/\ ret.op = "none"
        /\ ret'.op \in {"remove_session", "remove_message"}
        /\ ret'.arg = <<id>>) =>
          LET found == IF ret'.op = "remove_session" THEN crud_session_get(id)
                       ELSE crud_message_get(id)
          IN /\ ret'.result = found
             /\ found = << >> => (sessions' = sessions /\ messages' = messages)
             /\ found /= << >> =>
                  IF ret'.op = "remove_session"
                  THEN crud_session_get(id)' = << >>
                  ELSE crud_message_get(id)' = << >>]_vars

C14_Witness ==
  /\ ret.op = "remove_session"
  /\ ret.result = << >>
  /\ ret.arg[1] \notin DOMAIN sessions
  /\ sessions /= << >>
  /\ messages /= << >>

\* the identifiers of a page of entities
IdsOf(page) == { page[i].id : i \in DOMAIN page }

C16_StoreSessionReleased ==
  /\ \A p \in Procs :
       /\ turn[p].pc \notin {"idle", "done"}
            => (turn[p].db = "open" /\ turn[p].closes = 0)
       /\ Done(p) => (turn[p].db = "closed" /\ turn[p].closes = 1)
  /\ ret.op = "grouped_fetch" => (ret.db = "open" /\ ret.closes = 0)
  /\ ret.op \in {"grouped", "grouped_raised"}
       => (ret.db = "closed" /\ ret.closes = 1)

C16_Witness ==
  \E p \in Procs :
    /\ Done(p)
    /\ turn[p].outcome.kind = "RuntimeError"
    /\ turn[p].reply_failure = "Exception"
    /\ turn[p].closes = 1
    /\ sessions /= << >>

\* the fragments of a stream put together in the order of their arrival
RECURSIVE Concat(_)
Concat(parts) ==
  IF parts = << >> THEN << >> ELSE Head(parts) \o Concat(Tail(parts))

\* the turn has persisted its 'ai' message
AiSaved(p) ==
  turn[p].pc \in {"title", "update_title", "touch"} \/ Succeeded(p)

\* C17: the fragment stream of a turn is consumed to its end before the 'ai'
\* message is persisted (no 'ai' message of the turn exists while it
\* streams), and the persisted and the returned reply text is the
\* concatenation of all received fragments in the order of their arrival.
C17_ReplyIsConcatenation ==
  \A p \in Procs :
    /\ turn[p].pc = "stream"
         => CountRole(turn[p].session, "ai") = turn[p].before.ai
    /\ AiSaved(p) =>
         LET m == messages[Len(messages)]
         IN /\ m.role = "ai" /\ m.session_id = turn[p].session
            /\ m.content = Concat(turn[p].parts)
    /\ Succeeded(p) => turn[p].outcome.ai_response = Concat(turn[p].parts)

C17_Witness ==
  \E p \in Procs :
    /\ Succeeded(p)
    /\ Len(turn[p].parts) = MaxParts
    /\ turn[p].parts[1] /= turn[p].parts[Len(turn[p].parts)]
    /\ turn[p].reply_failure = "none"
    /\ turn[p].outcome.ai_response = messages[Len(messages)].content

\* the role of the model's vocabulary that a stored role stands for
ModelRole(role) == IF role = "ai" THEN "assistant" ELSE "user"

\* C18: the history handed to the model is the session's full message list in
\* chronological order, ending with the user prompt just persisted, each
\* message projected to {role, content} with the stored role 'user' as the
\* model's user role and the stored role 'ai' as the model's assistant role.
C18_HistoryForModel ==
  \A p \in Procs :
    turn[p].pc = "stream" =>
       LET msgs == CreatedInOrder(turn[p].session)
       IN /\ turn[p].history =
               [i \in DOMAIN msgs |->
                  [role |-> ModelRole(msgs[i].role),
                   content |-> msgs[i].content]]
          /\ turn[p].history[Len(turn[p].history)].content = turn[p].prompt

\* the turn of slot p has found the session whose id it was given
OnExistingSession(p) ==
  /\ turn[p].sessionId /= None
  /\ turn[p].pc \notin {"idle", "session"}
  /\ ~turn[p].lookup_miss
  /\ turn[p].session /= None

\* C19: a turn on an existing session never invokes the title generation and
\* leaves the session's title unchanged; the title it returns is the title
\* stored before the turn.  A title is generated and updated only for a
\* session created by the same turn.
C19_ExistingSessionKeepsTitle ==
  /\ [](\A p \in Procs :
          OnExistingSession(p) =>
             /\ turn[p].pc \notin {"title", "update_title"}
             /\ turn[p].generated_title = << >>
             /\ turn[p].title_failure = "none"
             /\ sessions[turn[p].session].title = turn[p].before.title
             /\ Succeeded(p) =>
                  turn[p].outcome.sessionTitle = turn[p].before.title)
  /\ [][\A id \in DOMAIN sessions \cap DOMAIN sessions' :
          sessions'[id].title /= sessions[id].title =>
             \E p \in Procs :
                /\ turn[p].pc = "update_title"
                /\ turn[p].sessionId = None
                /\ turn[p].session = id
                /\ id \notin turn[p].before.sessions]_vars

C19_Witness ==
  \E p \in Procs :
    /\ Succeeded(p)
    /\ turn[p].sessionId /= None
    /\ turn[p].outcome.sessionTitle = <<"a","B">>
    /\ turn[p].outcome.ai_response /= << >>

\* C20: under the workflow messages are immutable and append-only: no step
\* changes the role, content, session_id or created_at of a persisted message
\* or deletes one, and a step of a turn adds messages to the turn's own
\* session only.
C20_MessagesAppendOnly ==
  [][/\ Len(messages') >= Len(messages)
     /\ \A i \in DOMAIN messages : messages'[i] = messages[i]
     /\ turn' /= turn =>
          \A j \in DOMAIN messages' \ DOMAIN messages :
            \E p \in Procs :
               /\ turn[p].pc \in {"user_message", "ai_message"}
               /\ turn'[p] /= turn[p]
               /\ messages'[j].session_id = turn[p].session]_vars

C20_Witness ==
  \E p \in Procs :
    /\ Done(p)
    /\ Len(messages) = MaxMsgs
    /\ \E i \in DOMAIN messages : messages[i].session_id /= turn[p].session
    /\ \E i \in DOMAIN messages : messages[i].session_id = turn[p].session

\* slot p serves, or has served, a request whose session id matches no session
OnMissingSession(p) ==
  /\ turn[p].pc /= "idle"
  /\ turn[p].sessionId /= None
  /\ turn[p].sessionId \notin DOMAIN sessions

\* C21: a turn that fails because its session id matches no session leaves
\* the store unchanged (no session created, no message written, no title or
\* updated_at modified) and never invokes the model.
C21_NotFoundLeavesStore ==
  /\ [](\A p \in Procs :
          turn[p].lookup_miss =>
             /\ Done(p) /\ turn[p].outcome.kind = "RuntimeError"
             /\ turn[p].history = << >> /\ turn[p].parts = << >>
             /\ turn[p].full_ai_response = << >>
             /\ turn[p].generated_title = << >>
             /\ turn[p].reply_failure = "none"
             /\ turn[p].title_failure = "none")
  /\ [][\A p \in Procs :
          (OnMissingSession(p)' /\ turn'[p] /= turn[p]) =>
             /\ sessions' = sessions
             /\ messages' = messages
             /\ ids' = ids]_vars

C21_Witness ==
  \E p \in Procs :
    /\ Done(p)
    /\ turn[p].lookup_miss
    /\ sessions /= << >>
    /\ Len(messages) >= 2

\* the place of the message with identifier id in the table, 0 if it is gone
PlaceOf(id) ==
  IF \E i \in DOMAIN messages : messages[i].id = id
  THEN CHOOSE i \in DOMAIN messages : messages[i].id = id
  ELSE 0

\* how many rows of the table carry identifier id
RowsWith(id) == Cardinality({ i \in DOMAIN messages : messages[i].id = id })

\* both workers have completed a turn on the same existing session
BothSucceededOn(id) ==
  \A p \in Workers :
    /\ turn[p].pc = "done" /\ turn[p].outcome.kind = "ChatResponse"
    /\ turn[p].sessionId = id

\* C22: when two turns run at the same time on one existing session and both
\* succeed, under every interleaving of their store operations no message is
\* lost or duplicated: the session gains exactly two 'user' and two 'ai'
\* messages, each turn's 'ai' message is created after that turn's own 'user'
\* message, and of the session row nothing but updated_at can differ, which
\* is not earlier than before either turn.
C22_ConcurrentTurnsKeepMessages ==
  \A id \in SessionIds :
    BothSucceededOn(id) =>
       /\ CountRole(id, "user") = 2
       /\ CountRole(id, "ai") = 2
       /\ Cardinality({ turn[p].user_msg : p \in Workers }
                        \cup { turn[p].ai_msg : p \in Workers }) = 4
       /\ \A p \in Workers :
            LET u == PlaceOf(turn[p].user_msg)
                a == PlaceOf(turn[p].ai_msg)
            IN /\ RowsWith(turn[p].user_msg) = 1
               /\ RowsWith(turn[p].ai_msg) = 1
               /\ 0 < u /\ u < a
               /\ messages[u].role = "user" /\ messages[a].role = "ai"
               /\ messages[u].session_id = id /\ messages[a].session_id = id
               /\ messages[u].content = turn[p].prompt
               /\ messages[a].content = turn[p].outcome.ai_response
               /\ messages[u].created_at <= messages[a].created_at
               /\ sessions[id].title = turn[p].before.title
               /\ sessions[id].updated_at >= turn[p].before.updated_at
               /\ turn[p].outcome.sessionTitle = sessions[id].title

\* the two turns overlapped: each wrote its 'user' message before the other
\* wrote its 'ai' message
C22_Witness ==
  \E id \in SessionIds :
    /\ BothSucceededOn(id)
    /\ PlaceOf(turn[1].user_msg) < PlaceOf(turn[2].user_msg)
    /\ PlaceOf(turn[2].user_msg) < PlaceOf(turn[1].ai_msg)
    /\ PlaceOf(turn[1].ai_msg) < PlaceOf(turn[2].ai_msg)
    /\ messages[1].created_at < messages[Len(messages)].created_at

=============================================================================
